---------------------------- MODULE Spec2Model ----------------------------
(***************************************************************************)
(* Password strength evaluator and file-backed store                       *)
(* (password_utils.py) together with the Streamlit page (main.py) that     *)
(* reads and writes storage/passwords.json directly.                       *)
(*                                                                         *)
(* A password is a sequence of one-character strings.  A file is a record  *)
(* [state, data]: state is "missing" (no such path), "empty" (opened with  *)
(* mode "w" and nothing written yet), "partial" (json.dump interrupted) or *)
(* "complete" (a whole JSON array, whose records are data).  The leading   *)
(* emoji of the user-facing messages are left out of the message strings.  *)
(***************************************************************************)
EXTENDS Integers, Sequences, FiniteSets, TLC

\* passwords_file, links_file: the contents of storage/passwords.json and
\*     storage/links.json, the only state that outlives a call
\* call:   the operation last invoked, with its arguments
\* result: what that operation gave back to its caller
\* added:  history variable, the passwords of the add_password calls that
\*     returned the success message, oldest first (kept under SpecAdd only)
VARIABLES passwords_file, links_file, call, result, added

vars == <<passwords_file, links_file, call, result, added>>

(***************************************************************************)
(* Bounds of the model: the free characters and the repeated characters of *)
(* an evaluated password, the successful add_password calls of a run, and  *)
(* the entry positions the page's edit and delete are tried at.            *)
(***************************************************************************)
MaxBody == 3
MaxFill == 6
MaxAdds == 7
MaxIndex == 6

(***************************************************************************)
(* Characters.                                                             *)
(***************************************************************************)
AsciiUpper == {"A","B","C","D","E","F","G","H","I","J","K","L","M",
               "N","O","P","Q","R","S","T","U","V","W","X","Y","Z"}

AsciiLower == {"a","b","c","d","e","f","g","h","i","j","k","l","m",
               "n","o","p","q","r","s","t","u","v","w","x","y","z"}

Digits == {"0","1","2","3","4","5","6","7","8","9"}

Newline == "\n"

\* the validator's character class in place of the evaluator's
EvaluatorSpecialsOfValidator == {"@","$","!","%","*","?","&"}

\* [!@#$%^&*] of password_evaluator
EvaluatorSpecials == {"!","@","#","$","%","^","&","*"}

\* [@$!%*?&] of password_regex_pattern
ValidatorSpecials == {"@","$","!","%","*","?","&"}

\* [A-Za-z\d@$!%*?&] of password_regex_pattern
ValidatorAllowed == AsciiUpper \cup AsciiLower \cup Digits \cup ValidatorSpecials

\* the string of "Special Character" in the page's checks
PageSpecials == {"!","@","#","$","%","^","&","*","(",")","_","+","-","=","[","]",
                 "{","}","|",";","'",":",",",".","/","<",">","?"}

(***************************************************************************)
(* Regular-expression primitives, as Python's re evaluates them.           *)
(***************************************************************************)
\* re.search(r"[S]", p)
Search(S, p) == \E i \in 1..Len(p) : p[i] \in S

\* (?=.*[S]) at position 0: "." does not match a newline
Lookahead(S, p) ==
    \E i \in 1..Len(p) : /\ p[i] \in S
                         /\ \A j \in 1..(i-1) : p[j] # Newline

\* [S]{n,}$ from position 0: "$" matches at the end of the string and
\* just before a newline that ends the string
BodyToEnd(S, n, p) ==
    \E k \in n..Len(p) : /\ \A i \in 1..k : p[i] \in S
                         /\ \/ k = Len(p)
                            \/ k = Len(p) - 1 /\ p[Len(p)] = Newline

MinValidLength == 8

password_validator(password) ==
    /\ Lookahead(AsciiUpper \cup AsciiLower, password)
    /\ Lookahead(Digits, password)
    /\ Lookahead(ValidatorSpecials, password)
    /\ BodyToEnd(ValidatorAllowed, MinValidLength, password)

(***************************************************************************)
(* password_evaluator                                                      *)
(***************************************************************************)
MsgLength == "Password must be at least 8 characters long."
MsgCase == "Include both uppercase and lowercase letters."
MsgDigit == "Add at least one number (0-9)."
MsgSpecial == "Include at least one special character (!@#$%^&*)."

password_strength_ranking == <<"Weak", "Moderate", "Good", "Strong", "Excellent">>

MinLength == 8
MaxRankIndex == 4

Min(a, b) == IF a <= b THEN a ELSE b

\* one "if ... score += 1 else feedback.append(msg)" statement
CheckStep(acc, passed, msg) ==
    IF passed THEN [score |-> acc.score + 1, feedback |-> acc.feedback]
    ELSE [score |-> acc.score, feedback |-> Append(acc.feedback, msg)]

password_evaluator(password) ==
    LET a0 == [score |-> 0, feedback |-> <<>>]
        a1 == CheckStep(a0, Len(password) >= MinLength, MsgLength)
        a2 == CheckStep(a1, Search(AsciiUpper, password) /\ Search(AsciiLower, password),
                        MsgCase)
        a3 == CheckStep(a2, Search(Digits, password), MsgDigit)
        a4 == CheckStep(a3, Search(EvaluatorSpecials, password), MsgSpecial)
    IN  [score |-> a4.score,
         rank |-> password_strength_ranking[Min(a4.score, MaxRankIndex) + 1],
         feedback |-> a4.feedback]

(***************************************************************************)
(* Files and persistence                                                   *)
(***************************************************************************)
MissingFile == [state |-> "missing", data |-> <<>>]

\* data_loader: [] when the path does not exist or json.load raises
\* JSONDecodeError (an empty or partly written file)
data_loader(file) ==
    IF file.state = "missing" THEN <<>>
    ELSE IF file.state = "complete" THEN file.data
    ELSE <<>>

\* data_saver run to completion: the file holds the whole collection
data_saver(data) == [state |-> "complete", data |-> data]

\* data_saver interrupted: open(path, "w") has truncated the file, json.dump
\* has written only some of its chunks, or the with-block has closed the file
SaveSteps == {"after_open", "in_dump", "after_close"}

\* as data_saver_interrupted, with an interrupted json.dump leaving a whole
\* array of the records written so far
data_saver_interrupted_whole_prefix(data, at) ==
    IF at = "after_open" THEN [state |-> "empty", data |-> <<>>]
    ELSE IF at = "in_dump"
    THEN [state |-> "complete", data |-> SubSeq(data, 1, Len(data) - 1)]
    ELSE [state |-> "complete", data |-> data]

data_saver_interrupted(data, at) ==
    IF at = "after_open" THEN [state |-> "empty", data |-> <<>>]
    ELSE IF at = "in_dump" THEN [state |-> "partial", data |-> <<>>]
    ELSE data_saver(data)

\* load_passwords of the page: json.load is not guarded
load_passwords(file) ==
    IF file.state = "missing" THEN [raised |-> FALSE, data |-> <<>>]
    ELSE IF file.state = "complete" THEN [raised |-> FALSE, data |-> file.data]
    ELSE [raised |-> TRUE, data |-> <<>>]

\* save_passwords of the page
save_passwords(passwords) == [state |-> "complete", data |-> passwords]

(***************************************************************************)
(* Values returned to the caller                                           *)
(***************************************************************************)
Returned(message) == [kind |-> "message", val |-> message]
Raised(exception) == [kind |-> "raised", val |-> exception]
Records(data) == [kind |-> "records", val |-> data]
Crashed == [kind |-> "crashed", val |-> ""]
NoResult == [kind |-> "none", val |-> ""]

\* the type of a value stored under "rank"
PyStr(s) == [type |-> "str", val |-> s]
PyInt(n) == [type |-> "int", val |-> n]

MsgRecentlyUsed == "This password was recently used. Choose another."
MsgUnique == "Password is unique and not reused."
MsgCriteria == "Password does not meet security criteria."
MsgAdded == "Success: Password added successfully."
MsgLinkExists == "Error: A password is already stored for this site and username."
MsgLinkSaved == "Success: Password saved for the site."

(***************************************************************************)
(* History operations of password_utils.py                                 *)
(***************************************************************************)
HistoryCap == 5

\* as check_repeated_password, with the scan starting at the second entry
check_repeated_password_skip_oldest(file, password) ==
    LET passwords == data_loader(file)
    IN  IF \E i \in 2..Len(passwords) : passwords[i].password = password
        THEN [is_unique |-> FALSE, message |-> MsgRecentlyUsed]
        ELSE [is_unique |-> TRUE, message |-> MsgUnique]

\* as check_repeated_password, comparing with the newest entry only
check_repeated_password_newest_only(file, password) ==
    LET passwords == data_loader(file)
    IN  IF Len(passwords) > 0 /\ passwords[Len(passwords)].password = password
        THEN [is_unique |-> FALSE, message |-> MsgRecentlyUsed]
        ELSE [is_unique |-> TRUE, message |-> MsgUnique]

check_repeated_password(file, password) ==
    LET passwords == data_loader(file)
    IN  IF \E i \in 1..Len(passwords) : passwords[i].password = password
        THEN [is_unique |-> FALSE, message |-> MsgRecentlyUsed]
        ELSE [is_unique |-> TRUE, message |-> MsgUnique]

\* as appended_history, with passwords.pop() in place of passwords.pop(0)
appended_history_pop_newest(passwords, password) ==
    LET analysis == password_evaluator(password)
        appended == Append(passwords, [password |-> password,
                                       score |-> analysis.score,
                                       rank |-> PyStr(analysis.rank),
                                       feedback |-> analysis.feedback])
    IN  IF Len(appended) > HistoryCap THEN SubSeq(appended, 1, Len(appended) - 1)
        ELSE appended

\* lines 95-106: the list handed to data_saver
appended_history(passwords, password) ==
    LET analysis == password_evaluator(password)
        appended == Append(passwords, [password |-> password,
                                       score |-> analysis.score,
                                       rank |-> PyStr(analysis.rank),
                                       feedback |-> analysis.feedback])
    IN  IF Len(appended) > HistoryCap THEN Tail(appended) ELSE appended

add_password(password) ==
    LET passwords == data_loader(passwords_file)
        repeated == check_repeated_password(passwords_file, password)
    IN  /\ call' = [op |-> "add_password", password |-> password]
        /\ IF ~repeated.is_unique
           THEN /\ result' = Returned(repeated.message)
                /\ UNCHANGED passwords_file
           ELSE IF ~password_validator(password)
           THEN /\ result' = Returned(MsgCriteria)
                /\ UNCHANGED passwords_file
           ELSE /\ passwords_file' = data_saver(appended_history(passwords, password))
                /\ result' = Returned(MsgAdded)
        /\ UNCHANGED links_file

\* add_password when the process dies: before data_saver is entered
\* ("after_load") or at one of its steps
crash_add_password(password, at) ==
    LET passwords == data_loader(passwords_file)
        repeated == check_repeated_password(passwords_file, password)
        saves == repeated.is_unique /\ password_validator(password)
    IN  /\ at \in SaveSteps => saves
        /\ call' = [op |-> "add_password", password |-> password, at |-> at]
        /\ result' = Crashed
        /\ IF at \in SaveSteps
           THEN passwords_file' =
                    data_saver_interrupted(appended_history(passwords, password), at)
           ELSE UNCHANGED passwords_file
        /\ UNCHANGED links_file

(***************************************************************************)
(* Link operations of password_utils.py                                    *)
(***************************************************************************)
\* as link_exists, looking at the first entry only
link_exists_first_only(links, site, username) ==
    Len(links) > 0 /\ links[1].site = site /\ links[1].username = username

link_exists(links, site, username) ==
    \E i \in 1..Len(links) : links[i].site = site /\ links[i].username = username

appended_links(links, site, username, password) ==
    LET analysis == password_evaluator(password)
    IN  Append(links, [site |-> site, username |-> username, password |-> password,
                       score |-> analysis.score, rank |-> PyStr(analysis.rank)])

store_link(site, username, password) ==
    LET links == data_loader(links_file)
    IN  /\ call' = [op |-> "store_link", site |-> site, username |-> username,
                    password |-> password]
        /\ IF link_exists(links, site, username)
           THEN /\ result' = Returned(MsgLinkExists)
                /\ UNCHANGED links_file
           ELSE /\ links_file' = data_saver(appended_links(links, site, username, password))
                /\ result' = Returned(MsgLinkSaved)
        /\ UNCHANGED passwords_file

crash_store_link(site, username, password, at) ==
    LET links == data_loader(links_file)
    IN  /\ at \in SaveSteps => ~link_exists(links, site, username)
        /\ call' = [op |-> "store_link", site |-> site, username |-> username,
                    password |-> password, at |-> at]
        /\ result' = Crashed
        /\ IF at \in SaveSteps
           THEN links_file' =
                    data_saver_interrupted(appended_links(links, site, username, password), at)
           ELSE UNCHANGED links_file
        /\ UNCHANGED passwords_file

get_linked_passwords ==
    /\ call' = [op |-> "get_linked_passwords"]
    /\ result' = Records(data_loader(links_file))
    /\ UNCHANGED <<passwords_file, links_file>>

(***************************************************************************)
(* The page (main.py): every interaction reruns the script, which loads    *)
(* storage/passwords.json before anything else.                            *)
(***************************************************************************)
MsgCheckMissing == "Missing"
MsgExistsInHistory == "This password already exists in your history!"
MsgSaved == "Password saved successfully!"
MsgExists == "This password already exists!"
MsgUpdated == "Password updated!"
MsgDeleted == "Password deleted!"

PageMinLength == 8
PageScoreFloor == 2

\* the five entries of checks; passed_checks == len(checks) iff all hold
PageChecksPass(password) ==
    /\ Len(password) >= PageMinLength
    /\ Search(AsciiUpper, password) /\ Search(AsciiLower, password)
    /\ Search(Digits, password)
    /\ Search(PageSpecials, password)
    /\ password_evaluator(password).score > PageScoreFloor

existing_passwords(history) == {history[i].password : i \in 1..Len(history)}

\* the record built by the Save Password button
password_entry(password) ==
    [password |-> password, rank |-> PyInt(password_evaluator(password).score)]

\* the Password Checker tab with `password` typed in, and the Save Password
\* button pressed when it is offered
page_save(password) ==
    LET loaded == load_passwords(passwords_file)
    IN  /\ password # <<>>
        /\ call' = [op |-> "page_save", password |-> password]
        /\ IF loaded.raised
           THEN /\ result' = Raised("JSONDecodeError")
                /\ UNCHANGED passwords_file
           ELSE IF ~PageChecksPass(password)
           THEN /\ result' = Returned(MsgCheckMissing)
                /\ UNCHANGED passwords_file
           ELSE IF password \in existing_passwords(loaded.data)
           THEN /\ result' = Returned(MsgExistsInHistory)
                /\ UNCHANGED passwords_file
           ELSE /\ passwords_file' =
                       save_passwords(Append(loaded.data, password_entry(password)))
                /\ result' = Returned(MsgSaved)
        /\ UNCHANGED links_file

\* the edit box of entry i (1-based here) filled with new_password;
\* existing_passwords is bound only when the checker box is filled
page_edit(i, new_password, checker_filled) ==
    LET loaded == load_passwords(passwords_file)
    IN  /\ new_password # <<>>
        /\ loaded.raised \/ i \in 1..Len(loaded.data)
        /\ call' = [op |-> "page_edit", password |-> new_password]
        /\ IF loaded.raised
           THEN /\ result' = Raised("JSONDecodeError")
                /\ UNCHANGED passwords_file
           ELSE IF ~checker_filled
           THEN /\ result' = Raised("NameError")
                /\ UNCHANGED passwords_file
           ELSE IF new_password \in existing_passwords(loaded.data)
           THEN /\ result' = Returned(MsgExists)
                /\ UNCHANGED passwords_file
           ELSE /\ passwords_file' = save_passwords(
                       [loaded.data EXCEPT ![i] = [@ EXCEPT !.password = new_password]])
                /\ result' = Returned(MsgUpdated)
        /\ UNCHANGED links_file

\* the Delete button of entry i (1-based here)
page_delete(i) ==
    LET loaded == load_passwords(passwords_file)
    IN  /\ ~loaded.raised
        /\ i \in 1..Len(loaded.data)
        /\ call' = [op |-> "page_delete"]
        /\ passwords_file' = save_passwords(
               [k \in 1..(Len(loaded.data) - 1) |->
                    IF k < i THEN loaded.data[k] ELSE loaded.data[k + 1]])
        /\ result' = Returned(MsgDeleted)
        /\ UNCHANGED links_file

\* opening the page with nothing typed and nothing pressed
page_view ==
    LET loaded == load_passwords(passwords_file)
    IN  /\ call' = [op |-> "page_view"]
        /\ result' = IF loaded.raised THEN Raised("JSONDecodeError")
                      ELSE Records(loaded.data)
        /\ UNCHANGED <<passwords_file, links_file>>

(***************************************************************************)
(* Inputs                                                                  *)
(***************************************************************************)
\* "Secure@123" of the module's own example is Pw("S", "@", "3")
Pw(first, special, last) == <<first, "e", "c", "u", "r", "e", special, "1", "2", last>>

Weak == <<"w", "e", "a", "k">>
SecureHash == Pw("S", "#", "3")

\* passwords password_validator accepts, of scores 4, 3, 2, 3, 4 and 3
ValidInputs == {Pw("S", "@", "1"), Pw("s", "@", "2"), Pw("s", "?", "3"),
                Pw("S", "?", "4"), Pw("S", "@", "5"), Pw("s", "@", "6")}

AddInputs == ValidInputs \cup {SecureHash, Weak}

HistoryInputs == (ValidInputs \ {Pw("s", "@", "6")}) \cup {SecureHash}
PageInputs == {SecureHash}
EditInputs == {SecureHash}

Sites == {"example.com", "example.org"}
Usernames == {"user123", "User123"}
LinkPasswords == {Weak, Pw("S", "@", "3"), SecureHash}

CrashInputs == {Pw("S", "@", "1"), Pw("s", "@", "2"), Pw("s", "?", "3"), SecureHash}
CrashSites == {"example.com"}
CrashUsernames == {"user123", "User123"}
CrashLinkPasswords == {Weak, Pw("S", "@", "3")}

Alphabet == {"A", "a", "1", "@", "#", "?", Newline}

Fill(c, n) == [i \in 1..n |-> c]

Bodies == UNION {[1..n -> Alphabet] : n \in 0..MaxBody}

EvalInputs == {Fill(c, n) \o b : c \in Alphabet, n \in 0..MaxFill, b \in Bodies}

(***************************************************************************)
(* Specifications                                                          *)
(***************************************************************************)
Init ==
    /\ passwords_file = MissingFile
    /\ links_file = MissingFile
    /\ call = [op |-> "none"]
    /\ result = NoResult
    /\ added = <<>>

\* --- the pure functions, applied to a drawn input
InitEval ==
    /\ passwords_file = MissingFile
    /\ links_file = MissingFile
    /\ call \in {[op |-> "input", password |-> p] : p \in EvalInputs}
    /\ result = NoResult
    /\ added = <<>>

evaluate ==
    /\ call.op = "input"
    /\ call' = [op |-> "password_evaluator", password |-> call.password]
    /\ result' = [kind |-> "analysis", val |-> password_evaluator(call.password)]
    /\ UNCHANGED <<passwords_file, links_file, added>>

validate ==
    /\ call.op = "input"
    /\ call' = [op |-> "password_validator", password |-> call.password]
    /\ result' = [kind |-> "bool", val |-> password_validator(call.password)]
    /\ UNCHANGED <<passwords_file, links_file, added>>

NextEval == evaluate \/ validate

SpecEval == InitEval /\ [][NextEval]_vars

\* --- add_password alone; added lists the passwords of the calls that
\* returned the success message
logged_add_password(password) ==
    /\ Len(added) < MaxAdds
    /\ add_password(password)
    /\ added' = IF result'.val = MsgAdded THEN Append(added, password) ELSE added

NextAdd == \E p \in AddInputs : logged_add_password(p)

SpecAdd == Init /\ [][NextAdd]_vars

\* --- the link table alone
LinkStore ==
    \E s \in Sites, u \in Usernames, p \in LinkPasswords :
        store_link(s, u, p) /\ UNCHANGED added

LinkGet == get_linked_passwords /\ UNCHANGED added

NextLinks == LinkStore \/ LinkGet

SpecLinks == Init /\ [][NextLinks]_vars

\* --- every entry point that reads or writes storage/passwords.json
Add == \E p \in HistoryInputs : add_password(p) /\ UNCHANGED added

PageSave == \E p \in PageInputs : page_save(p) /\ UNCHANGED added

PageEdit ==
    \E i \in 1..MaxIndex, p \in EditInputs, filled \in BOOLEAN :
        page_edit(i, p, filled) /\ UNCHANGED added

PageDelete == \E i \in 1..MaxIndex : page_delete(i) /\ UNCHANGED added

PageView == page_view /\ UNCHANGED added

Next ==
    \/ Add
    \/ PageSave
    \/ PageEdit
    \/ PageDelete
    \/ PageView

Spec == Init /\ [][Next]_vars

\* --- the operations of password_utils.py, the process dying inside the two
\* that write, and the page's load
CrashFreeAdd == \E p \in CrashInputs : add_password(p) /\ UNCHANGED added

CrashingAdd ==
    \E p \in CrashInputs, at \in {"after_load"} \cup SaveSteps :
        crash_add_password(p, at) /\ UNCHANGED added

CrashFreeStoreLink ==
    \E s \in CrashSites, u \in CrashUsernames, p \in CrashLinkPasswords :
        store_link(s, u, p) /\ UNCHANGED added

CrashingStoreLink ==
    \E s \in CrashSites, u \in CrashUsernames, p \in CrashLinkPasswords,
       at \in {"after_load"} \cup SaveSteps :
        crash_store_link(s, u, p, at) /\ UNCHANGED added

NextCrash ==
    \/ CrashFreeAdd
    \/ CrashingAdd
    \/ CrashFreeStoreLink
    \/ CrashingStoreLink
    \/ LinkGet
    \/ PageView

SpecCrash == Init /\ [][NextCrash]_vars

(***************************************************************************)
(* Properties                                                              *)
(***************************************************************************)
history == data_loader(passwords_file)
links == data_loader(links_file)

PasswordsOf(records) == [i \in 1..Len(records) |-> records[i].password]

LastN(s, n) == SubSeq(s, Len(s) - n + 1, Len(s))

RankLabels == <<"Weak", "Moderate", "Good", "Strong", "Excellent">>

\* C1: from an empty history, after n successful add_password calls the
\* history holds exactly the last min(n, 5) passwords added, in the order
\* they were added; after 6 adds the first-added is the one evicted.
C1_LastFiveAdded ==
    PasswordsOf(history) = LastN(added, IF Len(added) < 5 THEN Len(added) ELSE 5)

C1_Witness ==
    /\ Len(added) = 6
    /\ Len(history) = 5
    /\ added[1] \notin existing_passwords(history)
    /\ history[1].password = added[2]
    /\ history[5].password = added[6]

PairwiseDistinct(records) ==
    \A i, j \in 1..Len(records) :
        i # j => records[i].password # records[j].password

\* C10: add_password(p) for a password p that password_validator accepts
\* returns the recently-used rejection exactly when a record whose password
\* equals p is persisted at the time of the call; when none is, the call
\* succeeds and p is the newest record, also when p was added before and
\* has since been evicted; and the stored passwords stay pairwise distinct.
C10_ReuseOnlyWithinHistory ==
    [][call'.op = "add_password" =>
        LET p == call'.password
        IN  /\ password_validator(p) =>
                  ((result' = Returned(MsgRecentlyUsed)) <=> (p \in existing_passwords(history)))
            /\ (password_validator(p) /\ p \notin existing_passwords(history)) =>
                  /\ result' = Returned(MsgAdded)
                  /\ Len(history') > 0
                  /\ history'[Len(history')].password = p
            /\ PairwiseDistinct(history')]_vars

C10_Witness ==
    /\ Len(added) = 7
    /\ added[7] = added[1]
    /\ result = Returned(MsgAdded)
    /\ Len(history) = 5
    /\ history[5].password = added[1]

\* C3: add_password(p) called while a record with password p is in the
\* history returns the recently-used message and leaves the file as it was;
\* called with a p that is not in the history and that password_validator
\* rejects, it returns the validation-failure message and leaves the file
\* as it was.
C3_RejectedAddChangesNothing ==
    [][call'.op = "add_password" =>
        LET p == call'.password
        IN  /\ p \in existing_passwords(history) =>
                  /\ result' = Returned(MsgRecentlyUsed)
                  /\ passwords_file' = passwords_file
            /\ (p \notin existing_passwords(history) /\ ~password_validator(p)) =>
                  /\ result' = Returned(MsgCriteria)
                  /\ passwords_file' = passwords_file]_vars

C3_Witness ==
    /\ call.op = "add_password"
    /\ result = Returned(MsgRecentlyUsed)
    /\ Len(history) >= 2
    /\ history[1].password = call.password

UniquePairs(records) ==
    \A i, j \in 1..Len(records) :
        i # j => <<records[i].site, records[i].username>>
                     # <<records[j].site, records[j].username>>

\* C4: no two persisted link records share a (site, username) pair, and a
\* store_link(s, u, p2) issued when a record with (s, u) exists returns the
\* duplicate-pair message and leaves links.json as it was.
C4_UniqueSiteUsername ==
    [][/\ UniquePairs(links')
       /\ (/\ call'.op = "store_link"
           /\ \E i \in 1..Len(links) : /\ links[i].site = call'.site
                                       /\ links[i].username = call'.username)
          => /\ result' = Returned(MsgLinkExists)
             /\ links_file' = links_file]_vars

C4_Witness ==
    /\ call.op = "store_link"
    /\ result = Returned(MsgLinkExists)
    /\ Len(links) >= 2
    /\ \E i \in 1..Len(links) : /\ links[i].site = call.site
                                /\ links[i].username = call.username
                                /\ links[i].password # call.password

Chars(p) == {p[i] : i \in 1..Len(p)}

C5_Satisfied(p) ==
    <<Len(p) >= 8,
      Chars(p) \cap AsciiUpper # {} /\ Chars(p) \cap AsciiLower # {},
      Chars(p) \cap Digits # {},
      Chars(p) \cap {"!", "@", "#", "$", "%", "^", "&", "*"} # {}>>

C5_Messages == <<MsgLength, MsgCase, MsgDigit, MsgSpecial>>

RECURSIVE C5_FailedFrom(_, _)
C5_FailedFrom(ok, k) ==
    IF k > 4 THEN <<>>
    ELSE (IF ok[k] THEN <<>> ELSE <<C5_Messages[k]>>) \o C5_FailedFrom(ok, k + 1)

\* C5: for every password, the empty one included, password_evaluator
\* returns as score the number of satisfied predicates among length >= 8,
\* upper and lower case both present, a digit present, a character of
\* !@#$%^&* present; as feedback the messages of exactly the failed
\* predicates in that order (so 4 - score of them); and as rank the entry
\* of Weak, Moderate, Good, Strong, Excellent at index score.
C5_EvaluatorContract ==
    call.op = "password_evaluator" =>
        LET ok == C5_Satisfied(call.password)
            score == Cardinality({k \in 1..4 : ok[k]})
        IN  /\ result.val.score = score
            /\ result.val.feedback = C5_FailedFrom(ok, 1)
            /\ Len(result.val.feedback) = 4 - score
            /\ result.val.rank = RankLabels[score + 1]

C5_Witness ==
    /\ call.op = "password_evaluator"
    /\ result.val.score = 2
    /\ result.val.rank = "Good"
    /\ result.val.feedback = <<MsgLength, MsgDigit>>

C2_HistoryAtMostFive == Len(history) <= 5

RankIsLabelOfScore(r) ==
    "rank" \in DOMAIN r =>
        /\ r.rank.type = "str"
        /\ r.rank.val \in {"Weak", "Moderate", "Good", "Strong", "Excellent"}
        /\ "score" \in DOMAIN r => /\ r.score \in 0..4
                                   /\ r.rank.val = RankLabels[r.score + 1]

\* C9: every persisted history or link record that carries a rank has one
\* of the five labels as its rank and, where it carries a score, a score in
\* 0..4 whose label the rank is.
C9_RankIsOneOfFiveLabels ==
    /\ \A i \in 1..Len(history) : RankIsLabelOfScore(history[i])
    /\ \A i \in 1..Len(links) : RankIsLabelOfScore(links[i])

\* C7: when storage/passwords.json is missing or does not hold a whole
\* JSON array, the page's load of it yields the empty sequence and raises
\* nothing.
C7_PageLoadDegradesToEmpty ==
    (call.op = "page_view" /\ passwords_file.state # "complete") =>
        /\ result.kind = "records"
        /\ result.val = <<>>

\* what the call recorded in c leaves persisted when it runs to its end
AfterAdd(c) ==
    IF c.password \in existing_passwords(history) \/ ~password_validator(c.password)
    THEN history
    ELSE appended_history(history, c.password)

AfterStoreLink(c) ==
    IF link_exists(links, c.site, c.username) THEN links
    ELSE appended_links(links, c.site, c.username, c.password)

\* C8 as stated: when the process dies at any step of add_password or
\* store_link, the file afterwards loads as the collection of before the
\* operation or as the collection of after it.
C8_CrashLeavesOldOrNew ==
    [][result'.kind = "crashed" =>
        /\ call'.op = "add_password" => history' \in {history, AfterAdd(call')}
        /\ call'.op = "store_link" => links' \in {links, AfterStoreLink(call')}]_vars

\* C8 as amended: when the process dies in add_password or store_link
\* before data_saver is entered, both files are left exactly as they were;
\* when it dies inside data_saver, the file being written loads either as
\* the collection of after the operation or as the empty collection, and the
\* other file is left as it was.
C8_CrashLeavesOldNewOrEmpty ==
    [][result'.kind = "crashed" =>
        /\ call'.at = "after_load" =>
              passwords_file' = passwords_file /\ links_file' = links_file
        /\ (call'.at # "after_load" /\ call'.op = "add_password") =>
              /\ history' \in {AfterAdd(call'), <<>>}
              /\ links_file' = links_file
        /\ (call'.at # "after_load" /\ call'.op = "store_link") =>
              /\ links' \in {AfterStoreLink(call'), <<>>}
              /\ passwords_file' = passwords_file]_vars

C8_Witness ==
    /\ result.kind = "crashed"
    /\ call.op = "add_password"
    /\ call.at = "in_dump"
    /\ passwords_file.state = "partial"
    /\ links_file.state = "complete"

=============================================================================
